---- MODULE Spec2Model ----
(***************************************************************************)
(* A model of freecad_material/fcmat.py: the FCMat codec.                  *)
(*                                                                         *)
(* A Python str is modelled as a sequence of one-character strings, so     *)
(* that strip(), splitlines(), replace() and the quoted-value regular      *)
(* expression are computed character by character.  An FCMat (an           *)
(* OrderedDict) is a sequence of entries in insertion order; an entry is   *)
(* [key, kind, s, d] where kind is the Python type of the value ("str",    *)
(* "FCMat" or "dict"), s the string of a str value and d the entries of a  *)
(* dict value.                                                             *)
(***************************************************************************)
EXTENDS Naturals, Sequences, FiniteSets

VARIABLES
    text,            \* loads(text): the argument
    lines,           \* _LineIter._lines
    pos,             \* _LineIter._pos
    stack,           \* the active _parse_block calls, outermost first
    root,            \* the FCMat _parse builds (every target is inside it)
    status,          \* "init", "run", "ok" (loads returned) or "error" (raised)
    error,           \* the FCMatParseError raised: [msg, line]
    op,              \* the step the program took last
    doc,             \* the FCMat that dumps() serializes
    header_comment,  \* dumps(header_comment=...): [isNone, s]
    value,           \* the argument of _quote
    quoted,          \* _quote(value)
    unquoted,        \* _unquote(quoted)
    args,            \* the arguments of the accessor called last
    ret              \* what that accessor returned

vars == <<text, lines, pos, stack, root, status, error, op,
          doc, header_comment, value, quoted, unquoted, args, ret>>

parseVars == <<text, lines, pos, stack, root, status, error>>
dumpVars  == <<doc, header_comment>>
quoteVars == <<value, quoted, unquoted>>
accessVars == <<args, ret>>

----------------------------------------------------------------------------
(* Characters *)

SP  == " "
DQ  == "\""
BS  == "\\"
NL  == "\n"
CR  == "\r"
TAB == "\t"
BOM == "U+FEFF"

\* str.isspace(): the characters str.strip() removes (those of the model)
Whitespace == {SP, TAB, NL, CR}

\* the line boundaries of str.splitlines() (those of the model)
LineBreaks == {NL, CR}

----------------------------------------------------------------------------
(* Bounds of the model *)

MaxLines  == 2   \* lines of an input text
MaxIndent == 4   \* leading spaces of an input line
MaxStrLen == 3   \* characters of an argument of _quote
MaxEntries == 3  \* keys of a Document handed to dumps, over all its sections

----------------------------------------------------------------------------
(* Python str helpers *)

RECURSIVE LStripSet(_, _)
LStripSet(s, chars) ==
    IF s # <<>> /\ Head(s) \in chars THEN LStripSet(Tail(s), chars) ELSE s

RECURSIVE RStripSet(_, _)
RStripSet(s, chars) ==
    IF s # <<>> /\ s[Len(s)] \in chars
    THEN RStripSet(SubSeq(s, 1, Len(s) - 1), chars)
    ELSE s

\* str.strip()
Strip(s) == RStripSet(LStripSet(s, Whitespace), Whitespace)

\* s.startswith(prefix)
StartsWith(s, prefix) ==
    Len(s) >= Len(prefix) /\ SubSeq(s, 1, Len(prefix)) = prefix

\* c in s
Contains(s, c) == \E i \in 1..Len(s) : s[i] = c

\* s.index(c): the first position of c (1-based), c in s
Index(s, c) == CHOOSE i \in 1..Len(s) : s[i] = c /\ \A j \in 1..(i - 1) : s[j] # c

\* s.replace(old, new): the occurrences of old, left to right, not overlapping
RECURSIVE Replace(_, _, _)
Replace(s, old, new) ==
    IF Len(s) < Len(old) THEN s
    ELSE IF StartsWith(s, old)
         THEN new \o Replace(SubSeq(s, Len(old) + 1, Len(s)), old, new)
         ELSE <<Head(s)>> \o Replace(Tail(s), old, new)

\* " " * n
RECURSIVE Spaces(_)
Spaces(n) == IF n = 0 THEN <<>> ELSE <<SP>> \o Spaces(n - 1)

\* "\n".join(ls)
RECURSIVE Join(_)
Join(ls) ==
    IF ls = <<>> THEN <<>>
    ELSE IF Len(ls) = 1 THEN ls[1]
    ELSE ls[1] \o <<NL>> \o Join(Tail(ls))

\* str.splitlines(): a line ends at "\n", "\r" or "\r\n"; the terminator is
\* dropped and a terminator at the very end opens no further line.
RECURSIVE SplitFrom(_, _)
SplitFrom(s, cur) ==
    IF s = <<>> THEN (IF cur = <<>> THEN <<>> ELSE <<cur>>)
    ELSE IF Head(s) = CR /\ Len(s) >= 2 /\ s[2] = NL
         THEN <<cur>> \o SplitFrom(SubSeq(s, 3, Len(s)), <<>>)
    ELSE IF Head(s) \in LineBreaks
         THEN <<cur>> \o SplitFrom(Tail(s), <<>>)
    ELSE SplitFrom(Tail(s), Append(cur, Head(s)))

SplitLines(s) == SplitFrom(s, <<>>)

----------------------------------------------------------------------------
(* Internal helpers of fcmat.py *)

\* _DQUOTE_VALUE_RE.match(value), the pattern ^"(.*)"$ : "." matches every
\* character but "\n", and "$" matches at the end and before a final "\n".
DQuoteValueRe(v) ==
    LET n == Len(v)
        noNL(a, b) == \A i \in a..b : v[i] # NL
    IN  IF n >= 2 /\ v[1] = DQ /\ v[n] = DQ /\ noNL(2, n - 1)
        THEN [matched |-> TRUE, group1 |-> SubSeq(v, 2, n - 1)]
        ELSE IF n >= 3 /\ v[1] = DQ /\ v[n] = NL /\ v[n - 1] = DQ /\ noNL(2, n - 2)
        THEN [matched |-> TRUE, group1 |-> SubSeq(v, 2, n - 2)]
        ELSE [matched |-> FALSE, group1 |-> <<>>]

\* Unquote that replaces the escape sequences of an unquoted value too
UnquoteUnmatched(v) ==
    LET m == DQuoteValueRe(v)
        inner == IF m.matched THEN m.group1 ELSE v
    IN  Replace(Replace(inner, <<BS, DQ>>, <<DQ>>), <<BS, BS>>, <<BS>>)

\* _unquote(value)
Unquote(v) ==
    LET m == DQuoteValueRe(v)
    IN  IF ~m.matched THEN v
        ELSE Replace(Replace(m.group1, <<BS, DQ>>, <<DQ>>), <<BS, BS>>, <<BS>>)

\* _quote(value)
Quote(v) ==
    <<DQ>> \o Replace(Replace(v, <<BS>>, <<BS, BS>>), <<DQ>>, <<BS, DQ>>) \o <<DQ>>

\* _indent_level(line)
IndentLevel(line) == Len(line) - Len(LStripSet(line, {SP}))

----------------------------------------------------------------------------
(* FCMat: an OrderedDict of str keys to str values and nested sections *)

StrEntry(k, s)   == [key |-> k, kind |-> "str",   s |-> s,    d |-> <<>>]
FCMatEntry(k, d) == [key |-> k, kind |-> "FCMat", s |-> <<>>, d |-> d]

\* isinstance(value, dict): FCMat is a subclass of OrderedDict, a dict
IsDict(e) == e.kind \in {"FCMat", "dict"}

\* key in d
HasKey(d, k) == \E i \in 1..Len(d) : d[i].key = k

KeyIndex(d, k) == CHOOSE i \in 1..Len(d) : d[i].key = k

\* SetItem that moves a key already present to the end
SetItemMoveToEnd(d, e) ==
    Append(SelectSeq(d, LAMBDA f : f.key # e.key), e)

\* d[e.key] = value of e (OrderedDict.__setitem__): a key already present keeps
\* its position, a new key goes to the end
SetItem(d, e) ==
    IF HasKey(d, e.key) THEN [d EXCEPT ![KeyIndex(d, e.key)] = e] ELSE Append(d, e)

\* target[e.key] = value of e, where target is the section reached from d
\* through the keys of path
RECURSIVE SetItemAt(_, _, _)
SetItemAt(d, path, e) ==
    IF path = <<>> THEN SetItem(d, e)
    ELSE LET i == KeyIndex(d, Head(path))
         IN  [d EXCEPT ![i].d = SetItemAt(d[i].d, Tail(path), e)]

----------------------------------------------------------------------------
(* _LineIter *)

\* _LineIter.peek(): (line number, line text or None)
Peek(ls, p) ==
    IF p >= Len(ls)
    THEN [line_no |-> p + 1, isNone |-> TRUE,  raw |-> <<>>]
    ELSE [line_no |-> p + 1, isNone |-> FALSE, raw |-> ls[p + 1]]

\* _LineIter.advance(): the position afterwards
Advance(ls, p) == IF p >= Len(ls) THEN p ELSE p + 1

----------------------------------------------------------------------------
(* FCMat._parse_block, one iteration of its loop at a time.  A parser state *)
(* st is [pos, stack, root, status, error, op]; a frame of the stack is one *)
(* active call: [target (the keys from root to its dict), expected_indent]. *)

NoError == [msg |-> "", line |-> 0]

Marker == <<"-", "-", "-">>

\* IsSkipped without the document marker
IsSkippedNoMarker(stripped) ==
    stripped = <<>> \/ StartsWith(stripped, <<"#">>)

\* not stripped or stripped.startswith("#") or stripped == "---"
IsSkipped(stripped) ==
    stripped = <<>> \/ StartsWith(stripped, <<"#">>) \/ stripped = Marker

\* BlockCase with the indentation compared before the skip test
BlockCaseIndentFirst(ls, st) ==
    LET fr       == st.stack[Len(st.stack)]
        pk       == Peek(ls, st.pos)
        stripped == Strip(pk.raw)
        indent   == IndentLevel(pk.raw)
    IN  IF pk.isNone THEN "eof"
        ELSE IF indent < fr.expected_indent THEN "dedent"
        ELSE IF indent > fr.expected_indent THEN "indent_error"
        ELSE IF IsSkipped(stripped) THEN "skip"
        ELSE IF ~Contains(stripped, ":") THEN "colon_error"
        ELSE IF Strip(SubSeq(stripped, Index(stripped, ":") + 1, Len(stripped))) # <<>>
             THEN "leaf"
        ELSE "section"

\* which way the iteration at the top frame goes
BlockCase(ls, st) ==
    LET fr       == st.stack[Len(st.stack)]
        pk       == Peek(ls, st.pos)
        stripped == Strip(pk.raw)
        indent   == IndentLevel(pk.raw)
    IN  IF pk.isNone THEN "eof"
        ELSE IF IsSkipped(stripped) THEN "skip"
        ELSE IF indent < fr.expected_indent THEN "dedent"
        ELSE IF indent > fr.expected_indent THEN "indent_error"
        ELSE IF ~Contains(stripped, ":") THEN "colon_error"
        ELSE IF Strip(SubSeq(stripped, Index(stripped, ":") + 1, Len(stripped))) # <<>>
             THEN "leaf"
        ELSE "section"

\* return: the call ends; its caller goes on with its own loop, and when the
\* call was _parse's, loads returns root
ReturnBlock(st, name) ==
    LET rest == SubSeq(st.stack, 1, Len(st.stack) - 1)
    IN  [st EXCEPT !.stack = rest,
                   !.status = IF rest = <<>> THEN "ok" ELSE "run",
                   !.op = name]

\* raise FCMatParseError(msg, line_no): every active call is left
RaiseParseError(st, msg, line_no, name) ==
    [st EXCEPT !.stack = <<>>, !.status = "error",
               !.error = [msg |-> msg, line |-> line_no], !.op = name]

\* StepEOF that takes the end of the input inside a section for an error
StepEOFInsideSection(ls, st) ==
    IF Len(st.stack) > 1
    THEN RaiseParseError(st, "Unexpected end of input", Peek(ls, st.pos).line_no, "eof")
    ELSE ReturnBlock(st, "eof")

\* raw is None: EOF
StepEOF(ls, st) == ReturnBlock(st, "eof")

\* StepSkip that leaves the line where it is
StepSkipNoAdvance(ls, st) == [st EXCEPT !.op = "skip"]

\* blank line, comment or document marker: it.advance(); continue
StepSkip(ls, st) == [st EXCEPT !.pos = Advance(ls, st.pos), !.op = "skip"]

\* StepDedent that consumes the line it returns on
StepDedentConsuming(ls, st) ==
    ReturnBlock([st EXCEPT !.pos = Advance(ls, st.pos)], "dedent")

\* indent < expected_indent: return without consuming
StepDedent(ls, st) == ReturnBlock(st, "dedent")

\* StepIndentError that reports the cursor position, not the line number
StepIndentErrorAtPos(ls, st) ==
    RaiseParseError(st, "Unexpected indentation", st.pos, "indent_error")

\* indent > expected_indent
StepIndentError(ls, st) ==
    RaiseParseError(st, "Unexpected indentation", Peek(ls, st.pos).line_no,
                    "indent_error")

\* StepColonError that takes the line number after it.advance()
StepColonErrorAfterAdvance(ls, st) ==
    RaiseParseError([st EXCEPT !.pos = Advance(ls, st.pos)],
                    "Expected 'key: value'",
                    Peek(ls, Advance(ls, st.pos)).line_no, "colon_error")

\* it.advance(), then ":" not in stripped
StepColonError(ls, st) ==
    RaiseParseError([st EXCEPT !.pos = Advance(ls, st.pos)],
                    "Expected 'key: value'", Peek(ls, st.pos).line_no,
                    "colon_error")

\* StepLeaf that stores rest as it is written
StepLeafRaw(ls, st) ==
    LET fr        == st.stack[Len(st.stack)]
        stripped  == Strip(Peek(ls, st.pos).raw)
        colon_pos == Index(stripped, ":")
        key       == Strip(SubSeq(stripped, 1, colon_pos - 1))
        rest      == Strip(SubSeq(stripped, colon_pos + 1, Len(stripped)))
    IN  [st EXCEPT !.pos = Advance(ls, st.pos),
                   !.root = SetItemAt(st.root, fr.target, StrEntry(key, rest)),
                   !.op = "leaf"]

\* it.advance(), then target[key] = _unquote(rest)
StepLeaf(ls, st) ==
    LET fr        == st.stack[Len(st.stack)]
        stripped  == Strip(Peek(ls, st.pos).raw)
        colon_pos == Index(stripped, ":")
        key       == Strip(SubSeq(stripped, 1, colon_pos - 1))
        rest      == Strip(SubSeq(stripped, colon_pos + 1, Len(stripped)))
    IN  [st EXCEPT !.pos = Advance(ls, st.pos),
                   !.root = SetItemAt(st.root, fr.target, StrEntry(key, Unquote(rest))),
                   !.op = "leaf"]

\* StepSection that expects the children four spaces further in
StepSectionFourSpaces(ls, st) ==
    LET fr        == st.stack[Len(st.stack)]
        stripped  == Strip(Peek(ls, st.pos).raw)
        colon_pos == Index(stripped, ":")
        key       == Strip(SubSeq(stripped, 1, colon_pos - 1))
    IN  [st EXCEPT !.pos = Advance(ls, st.pos),
                   !.root = SetItemAt(st.root, fr.target, FCMatEntry(key, <<>>)),
                   !.stack = Append(st.stack,
                                    [target |-> Append(fr.target, key),
                                     expected_indent |-> fr.expected_indent + 4]),
                   !.op = "section"]

\* it.advance(), then target[key] = child and _parse_block(it, child,
\* expected_indent + 2)
StepSection(ls, st) ==
    LET fr        == st.stack[Len(st.stack)]
        stripped  == Strip(Peek(ls, st.pos).raw)
        colon_pos == Index(stripped, ":")
        key       == Strip(SubSeq(stripped, 1, colon_pos - 1))
    IN  [st EXCEPT !.pos = Advance(ls, st.pos),
                   !.root = SetItemAt(st.root, fr.target, FCMatEntry(key, <<>>)),
                   !.stack = Append(st.stack,
                                    [target |-> Append(fr.target, key),
                                     expected_indent |-> fr.expected_indent + 2]),
                   !.op = "section"]

\* one iteration of the while loop of the innermost active call
ParseStep(ls, st) ==
    LET c == BlockCase(ls, st)
    IN  CASE c = "eof"          -> StepEOF(ls, st)
          [] c = "skip"         -> StepSkip(ls, st)
          [] c = "dedent"       -> StepDedent(ls, st)
          [] c = "indent_error" -> StepIndentError(ls, st)
          [] c = "colon_error"  -> StepColonError(ls, st)
          [] c = "leaf"         -> StepLeaf(ls, st)
          [] c = "section"      -> StepSection(ls, st)

\* FCMat._parse(lines), at its call of _parse_block(it, root, 0).  No step of
\* the model raises anything but FCMatParseError, so the wrapping of other
\* exceptions has no case here.
ParseStart ==
    [pos |-> 0, stack |-> <<[target |-> <<>>, expected_indent |-> 0]>>,
     root |-> <<>>, status |-> "run", error |-> NoError, op |-> "loads"]

RECURSIVE ParseRun(_, _)
ParseRun(ls, st) == IF st.status # "run" THEN st ELSE ParseRun(ls, ParseStep(ls, st))

\* StripBOM that removes every leading byte-order mark
StripEveryBOM(t) == LStripSet(t, {BOM})

\* loads: if text.startswith(BOM): text = text[1:]
StripBOM(t) == IF StartsWith(t, <<BOM>>) THEN Tail(t) ELSE t

\* FCMat.loads(text), run to its end
Loads(t) == ParseRun(SplitLines(StripBOM(t)), ParseStart)

----------------------------------------------------------------------------
(* FCMat.get_section, FCMat.get_value, FCMat.set_value *)

\* a value an accessor takes or returns: None, a str or a section
None == [kind |-> "None", s |-> <<>>, d |-> <<>>]
Str(v) == [kind |-> "str", s |-> v, d |-> <<>>]

\* an entry of plain dict type: a section that is no FCMat
DictEntry(k, d) == [key |-> k, kind |-> "dict", s |-> <<>>, d |-> d]

\* d.get(k): the value under k, or None
DictGet(d, k) ==
    IF HasKey(d, k)
    THEN LET e == d[KeyIndex(d, k)]
         IN  [kind |-> e.kind, s |-> e.s, d |-> e.d]
    ELSE None

\* self.get_section(name)
GetSection(self, name) ==
    LET val == DictGet(self, name)
    IN  IF val.kind = "FCMat" THEN val ELSE None

\* GetValue that returns whatever the section holds under key
GetValueAnyKind(self, section, key, default) ==
    LET sec == GetSection(self, section)
    IN  IF sec = None THEN default
        ELSE LET val == DictGet(sec.d, key)
             IN  IF val = None THEN default ELSE val

\* self.get_value(section, key, default)
GetValue(self, section, key, default) ==
    LET sec == GetSection(self, section)
    IN  IF sec = None THEN default
        ELSE LET val == DictGet(sec.d, key)
             IN  IF val = None THEN default
                 ELSE IF val.kind = "str" THEN val
                 ELSE default

\* SetValue that puts a new section in the place of every existing value
SetValueFresh(self, section, key, v) ==
    LET d1 == SetItem(self, FCMatEntry(section, <<>>))
        i  == KeyIndex(d1, section)
    IN  [d1 EXCEPT ![i].d = SetItem(d1[i].d, StrEntry(key, v))]

\* self.set_value(section, key, value): self afterwards
SetValue(self, section, key, v) ==
    LET d1 == IF ~HasKey(self, section) \/ ~IsDict(self[KeyIndex(self, section)])
              THEN SetItem(self, FCMatEntry(section, <<>>))
              ELSE self
        i  == KeyIndex(d1, section)
    IN  [d1 EXCEPT ![i].d = SetItem(d1[i].d, StrEntry(key, v))]

----------------------------------------------------------------------------
(* FCMat.dumps *)

\* "# File written by freecad_material"
DefaultHeader ==
    <<"#", " ", "F", "i", "l", "e", " ", "w", "r", "i", "t", "t", "e", "n", " ",
      "b", "y", " ", "f", "r", "e", "e", "c", "a", "d", "_", "m", "a", "t", "e",
      "r", "i", "a", "l">>

\* FCMat._serialize_dict(d, lines, indent): the lines it appends
RECURSIVE SerializeDict(_, _)
SerializeDict(d, indent) ==
    IF d = <<>> THEN <<>>
    ELSE LET e      == Head(d)
             prefix == Spaces(indent)
         IN  (IF IsDict(e)
              THEN <<prefix \o e.key \o <<":">> >> \o SerializeDict(e.d, indent + 2)
              ELSE <<prefix \o e.key \o <<":", SP>> \o Quote(e.s)>>)
             \o SerializeDict(Tail(d), indent)

\* HeaderLines that puts "# " in front of every non-empty header_comment
HeaderLinesAlwaysPrefix(hc) ==
    LET h == IF hc.isNone THEN DefaultHeader ELSE hc.s
    IN  IF h = <<>> THEN <<>> ELSE << <<"#", SP>> \o h >>

\* the lines dumps appends for header_comment
HeaderLines(hc) ==
    LET h == IF hc.isNone THEN DefaultHeader ELSE hc.s
    IN  IF h = <<>> THEN <<>>
        ELSE IF StartsWith(h, <<"#">>) THEN <<h>>
        ELSE << <<"#", SP>> \o h >>

\* FCMat.dumps(header_comment=hc)
Dumps(d, hc) ==
    Join(<<Marker>> \o HeaderLines(hc) \o SerializeDict(d, 0)) \o <<NL>>

----------------------------------------------------------------------------
(* The inputs of the model *)

\* what an input line holds after its leading spaces: a section line, an
\* unquoted leaf, a quoted leaf with an escaped quote, a line without a colon,
\* a comment, a document marker, nothing
Contents ==
    { <<"a", ":">>,
      <<"b", ":", SP, "x">>,
      <<"a", ":", SP, DQ, BS, DQ, DQ>>,
      <<"b">>,
      <<"#">>,
      Marker,
      <<>> }

InputLines == { Spaces(i) \o c : i \in 0..MaxIndent, c \in Contents }

\* every line of ls followed by "\n"
RECURSIVE TextOf(_)
TextOf(ls) == IF ls = <<>> THEN <<>> ELSE Head(ls) \o <<NL>> \o TextOf(Tail(ls))

MaxBOMs == 1   \* byte-order marks in front of an input text

RECURSIVE BOMs(_)
BOMs(n) == IF n = 0 THEN <<>> ELSE <<BOM>> \o BOMs(n - 1)

NoHeader == [isNone |-> TRUE, s |-> <<>>]

\* no accessor called yet
NoArgs == [name |-> "", section |-> <<>>, key |-> <<>>, value |-> <<>>,
           default |-> None]

----------------------------------------------------------------------------
(* loads(text), step by step *)

Cur == [pos |-> pos, stack |-> stack, root |-> root, status |-> status,
        error |-> error, op |-> op]

Apply(st) ==
    /\ pos' = st.pos
    /\ stack' = st.stack
    /\ root' = st.root
    /\ status' = st.status
    /\ error' = st.error
    /\ op' = st.op

\* the input texts: up to MaxBOMs byte-order marks, then up to MaxLines lines
Init ==
    /\ \E n \in 0..MaxBOMs : \E k \in 0..MaxLines : \E ls \in [1..k -> InputLines] :
            text = BOMs(n) \o TextOf(ls)
    /\ lines = <<>>
    /\ pos = 0
    /\ stack = <<>>
    /\ root = <<>>
    /\ status = "init"
    /\ error = NoError
    /\ op = "start"
    /\ doc = <<>>
    /\ header_comment = NoHeader
    /\ value = <<>>
    /\ quoted = <<>>
    /\ unquoted = <<>>
    /\ args = NoArgs
    /\ ret = None

\* FCMat.loads up to the first iteration of _parse_block(it, root, 0)
LoadsCall ==
    /\ status = "init"
    /\ lines' = SplitLines(StripBOM(text))
    /\ Apply(ParseStart)
    /\ UNCHANGED <<text, dumpVars, quoteVars, accessVars>>

Block(c, st) ==
    /\ status = "run"
    /\ BlockCase(lines, Cur) = c
    /\ Apply(st)
    /\ UNCHANGED <<text, lines, dumpVars, quoteVars, accessVars>>

BlockEOF         == Block("eof", StepEOF(lines, Cur))
BlockSkip        == Block("skip", StepSkip(lines, Cur))
BlockDedent      == Block("dedent", StepDedent(lines, Cur))
BlockIndentError == Block("indent_error", StepIndentError(lines, Cur))
BlockColonError  == Block("colon_error", StepColonError(lines, Cur))
BlockLeaf        == Block("leaf", StepLeaf(lines, Cur))
BlockSection     == Block("section", StepSection(lines, Cur))

Next ==
    \/ LoadsCall
    \/ BlockEOF
    \/ BlockSkip
    \/ BlockDedent
    \/ BlockIndentError
    \/ BlockColonError
    \/ BlockLeaf
    \/ BlockSection

Spec == Init /\ [][Next]_vars

----------------------------------------------------------------------------
(* _quote and _unquote, one call after the other *)

QuoteAlphabet == {"a", DQ, BS, NL}

Strings(n) == UNION { [1..k -> QuoteAlphabet] : k \in 0..n }

InitQuote ==
    /\ value \in Strings(MaxStrLen)
    /\ quoted = <<>>
    /\ unquoted = <<>>
    /\ op = "start"
    /\ text = <<>>
    /\ lines = <<>>
    /\ pos = 0
    /\ stack = <<>>
    /\ root = <<>>
    /\ status = "init"
    /\ error = NoError
    /\ doc = <<>>
    /\ header_comment = NoHeader
    /\ args = NoArgs
    /\ ret = None

QuoteCall ==
    /\ op = "start"
    /\ quoted' = Quote(value)
    /\ op' = "quote"
    /\ UNCHANGED <<value, unquoted, parseVars, dumpVars, accessVars>>

UnquoteCall ==
    /\ op = "quote"
    /\ unquoted' = Unquote(quoted)
    /\ op' = "unquote"
    /\ UNCHANGED <<value, quoted, parseVars, dumpVars, accessVars>>

NextQuote == QuoteCall \/ UnquoteCall

SpecQuote == InitQuote /\ [][NextQuote]_vars

----------------------------------------------------------------------------
(* dumps(doc, header_comment=...) and loads of what it wrote *)

DocKeys == { <<"a">>, <<"b">> }

\* leaf strings: empty, plain, a double quote, a backslash, two lines
LeafValues == { <<>>, <<"x">>, <<DQ>>, <<BS>>, <<"x", NL, "y">> }

\* the Documents of at most n keys, counted over all their sections
RECURSIVE DocsUpTo(_)
DocsUpTo(n) ==
    IF n = 0 THEN { <<>> }
    ELSE { <<>> }
         \cup { d \in { <<StrEntry(k, s)>> \o r :
                          k \in DocKeys, s \in LeafValues, r \in DocsUpTo(n - 1) } :
                  ~HasKey(Tail(d), d[1].key) }
         \cup UNION { { d \in { <<FCMatEntry(k, c)>> \o r :
                                  k \in DocKeys, c \in DocsUpTo(j),
                                  r \in DocsUpTo(n - 1 - j) } :
                          ~HasKey(Tail(d), d[1].key) } : j \in 0..(n - 1) }

\* header_comment: None, "", "x", "#x", and a text of two lines
Headers ==
    { NoHeader,
      [isNone |-> FALSE, s |-> <<>>],
      [isNone |-> FALSE, s |-> <<"x">>],
      [isNone |-> FALSE, s |-> <<"#", "x">>],
      [isNone |-> FALSE, s |-> <<"x", NL, "y">>] }

InitCodec ==
    /\ doc \in DocsUpTo(MaxEntries)
    /\ header_comment \in Headers
    /\ op = "start"
    /\ text = <<>>
    /\ lines = <<>>
    /\ pos = 0
    /\ stack = <<>>
    /\ root = <<>>
    /\ status = "init"
    /\ error = NoError
    /\ value = <<>>
    /\ quoted = <<>>
    /\ unquoted = <<>>
    /\ args = NoArgs
    /\ ret = None

\* text = doc.dumps(header_comment=header_comment)
DumpsCall ==
    /\ op = "start"
    /\ text' = Dumps(doc, header_comment)
    /\ op' = "dumps"
    /\ UNCHANGED <<lines, pos, stack, root, status, error, dumpVars, quoteVars,
                   accessVars>>

\* FCMat.loads(text), from its call to its return or its exception
LoadsReturn ==
    /\ op = "dumps"
    /\ lines' = SplitLines(StripBOM(text))
    /\ Apply([Loads(text) EXCEPT !.op = "loads"])
    /\ UNCHANGED <<text, dumpVars, quoteVars, accessVars>>

NextCodec == DumpsCall \/ LoadsReturn

SpecCodec == InitCodec /\ [][NextCodec]_vars

----------------------------------------------------------------------------
(* loads of a text taken whole, and of a text of one leaf line *)

\* FCMat.loads(text), from its call to its return or its exception
LoadsText ==
    /\ op = "start"
    /\ status = "init"
    /\ lines' = SplitLines(StripBOM(text))
    /\ Apply([Loads(text) EXCEPT !.op = "loads_text"])
    /\ UNCHANGED <<text, dumpVars, quoteVars, accessVars>>

\* what follows the colon of a leaf line
LeafAlphabet == {"a", DQ, BS, ":", SP}

LeafTexts(n) == UNION { [1..k -> LeafAlphabet] : k \in 0..n }

\* the line "k:" and value, at the root or inside the section "s:"
LeafLine(v, nested) ==
    IF nested
    THEN <<"s", ":", NL, SP, SP, "k", ":">> \o v \o <<NL>>
    ELSE <<"k", ":">> \o v \o <<NL>>

InitLeaf ==
    /\ value \in LeafTexts(MaxStrLen)
    /\ \E nested \in BOOLEAN : text = LeafLine(value, nested)
    /\ lines = <<>>
    /\ pos = 0
    /\ stack = <<>>
    /\ root = <<>>
    /\ status = "init"
    /\ error = NoError
    /\ op = "start"
    /\ doc = <<>>
    /\ header_comment = NoHeader
    /\ quoted = <<>>
    /\ unquoted = <<>>
    /\ args = NoArgs
    /\ ret = None

NextLeaf == LoadsText

SpecLeaf == InitLeaf /\ [][NextLeaf]_vars

----------------------------------------------------------------------------
(* loads of a text of nested and repeated keys, then dumps of the Document *)
(* it returned and loads of what dumps wrote                               *)

MaxTextLines == 3   \* lines of such a text

\* a section a, the leaf a unquoted and quoted, a leaf b, a comment
NestContents ==
    { <<"a", ":">>,
      <<"a", ":", SP, "x">>,
      <<"a", ":", SP, DQ, BS, DQ, DQ>>,
      <<"b", ":", SP, "x">>,
      <<"#">> }

\* the leading spaces of a line: depths 0, 1 and 2, and an odd count
NestIndents == {0, 1, 2, 4}

NestLines == { Spaces(i) \o c : i \in NestIndents, c \in NestContents }

InitReload ==
    /\ \E k \in 0..MaxTextLines : \E ls \in [1..k -> NestLines] : text = TextOf(ls)
    /\ lines = <<>>
    /\ pos = 0
    /\ stack = <<>>
    /\ root = <<>>
    /\ status = "init"
    /\ error = NoError
    /\ op = "start"
    /\ doc = <<>>
    /\ header_comment = NoHeader
    /\ value = <<>>
    /\ quoted = <<>>
    /\ unquoted = <<>>
    /\ args = NoArgs
    /\ ret = None

\* text = root.dumps(header_comment=h) for the Document loads returned
DumpsRoot ==
    /\ op = "loads_text"
    /\ status = "ok"
    /\ doc' = root
    /\ \E h \in Headers :
          /\ header_comment' = h
          /\ text' = Dumps(root, h)
    /\ op' = "dumps"
    /\ UNCHANGED <<lines, pos, stack, root, status, error, quoteVars, accessVars>>

NextReload == LoadsText \/ DumpsRoot \/ LoadsReturn

SpecReload == InitReload /\ [][NextReload]_vars

----------------------------------------------------------------------------
(* The accessors, called on a Document: set_value at most once, then a get *)

TopKeys   == { <<"a">>, <<"b">> }
InnerKeys == { <<"a">>, <<"b">> }

\* what a section holds under a key: a leaf or a nested section
InnerEntries == { StrEntry(k, <<"x">>) : k \in InnerKeys }
                    \cup { FCMatEntry(k, <<>>) : k \in InnerKeys }

\* the sequences of entries out of E with no key twice
Bodies(E) ==
    { <<>> } \cup { <<e>> : e \in E }
             \cup UNION { { <<e, f>> : f \in { g \in E : g.key # e.key } } : e \in E }

\* what the Document holds under a key: a leaf, an FCMat section or a section
\* of plain dict type
TopEntries ==
    { StrEntry(k, <<"x">>) : k \in TopKeys }
        \cup { FCMatEntry(k, b) : k \in TopKeys, b \in Bodies(InnerEntries) }
        \cup { DictEntry(k, b) : k \in TopKeys, b \in Bodies(InnerEntries) }

Defaults == { None, Str(<<"z">>) }

InitAccess ==
    /\ doc \in Bodies(TopEntries)
    /\ args = NoArgs
    /\ ret = None
    /\ op = "start"
    /\ text = <<>>
    /\ lines = <<>>
    /\ pos = 0
    /\ stack = <<>>
    /\ root = <<>>
    /\ status = "init"
    /\ error = NoError
    /\ header_comment = NoHeader
    /\ value = <<>>
    /\ quoted = <<>>
    /\ unquoted = <<>>

\* doc.set_value(section, key, value)
SetValueCall ==
    /\ op = "start"
    /\ \E section \in TopKeys, key \in InnerKeys, v \in { <<"y">> } :
          /\ doc' = SetValue(doc, section, key, v)
          /\ args' = [name |-> "set_value", section |-> section, key |-> key,
                      value |-> v, default |-> None]
    /\ ret' = None
    /\ op' = "set_value"
    /\ UNCHANGED <<parseVars, header_comment, quoteVars>>

\* doc.get_section(name)
GetSectionCall ==
    /\ op \in {"start", "set_value"}
    /\ \E name \in TopKeys :
          /\ ret' = GetSection(doc, name)
          /\ args' = [name |-> "get_section", section |-> name, key |-> <<>>,
                      value |-> <<>>, default |-> None]
    /\ op' = "get_section"
    /\ UNCHANGED <<parseVars, dumpVars, quoteVars>>

\* doc.get_value(section, key, default)
GetValueCall ==
    /\ op \in {"start", "set_value"}
    /\ \E section \in TopKeys, key \in InnerKeys, default \in Defaults :
          /\ ret' = GetValue(doc, section, key, default)
          /\ args' = [name |-> "get_value", section |-> section, key |-> key,
                      value |-> <<>>, default |-> default]
    /\ op' = "get_value"
    /\ UNCHANGED <<parseVars, dumpVars, quoteVars>>

NextAccess == SetValueCall \/ GetSectionCall \/ GetValueCall

SpecAccess == InitAccess /\ [][NextAccess]_vars

----------------------------------------------------------------------------
(* Claims *)

EmptyHeader == [isNone |-> FALSE, s |-> <<>>]

\* C1: round trip.  For every Document d of leaf strings and nested
\* Documents, loads(dumps(d, header_comment="")) returns d itself: the same
\* keys in the same order, the same nesting, the same leaf strings, whatever
\* the leaf strings hold.
C1_RoundTrip ==
    (op = "loads" /\ header_comment = EmptyHeader)
        => (status = "ok" /\ root = doc)

\* C2: escaping inverse.  For every string s, the line-break character
\* included, _unquote(_quote(s)) = s.
C2_EscapingInverse ==
    op = "unquote" => unquoted = value

(* Terms of the claims about the parser *)

\* a line that is blank, a comment or a document marker
SkippableLine(l) ==
    LET t == Strip(l)
    IN  t = <<>> \/ t[1] = "#" \/ t = <<"-", "-", "-">>

\* the block being parsed and the content line it is about to examine
Top == stack[Len(stack)]
ContentAhead == status = "run" /\ pos < Len(lines) /\ ~SkippableLine(lines[pos + 1])
AheadIndent == IndentLevel(lines[pos + 1])

\* lines of blanks, comments and markers at every indentation
SkipLines ==
    { Spaces(i) \o c : i \in 0..MaxIndent, c \in { <<"#">>, Marker } }
        \cup { <<>>, Spaces(MaxIndent), <<TAB>> }

\* the lines ls with the line l put in after the i-th
InsertLine(ls, i, l) == SubSeq(ls, 1, i) \o <<l>> \o SubSeq(ls, i + 1, Len(ls))

\* C3: marker, comment and blank tolerance.  When a text parses, the text with
\* one more blank line, comment line or "---" line between two of its lines,
\* at any indentation, parses to the same Document.
C3_SkipTolerance ==
    status = "ok" =>
        \A i \in 1..(Len(lines) - 1) : \A l \in SkipLines :
            LET r == ParseRun(InsertLine(lines, i, l), ParseStart)
            IN  r.status = "ok" /\ r.root = root

\* a text of a section line and its leaf: the line goes in inside the section
C3_Witness ==
    /\ status = "ok"
    /\ Len(lines) = 2
    /\ Len(root) = 1
    /\ root[1].kind = "FCMat" /\ Len(root[1].d) = 1

\* the characters of the lines ls, one line after the other
RECURSIVE Concat(_)
Concat(ls) == IF ls = <<>> THEN <<>> ELSE Head(ls) \o Concat(Tail(ls))

\* the characters of t that are no line boundary
NonBreaks(t) == SelectSeq(t, LAMBDA c : c \notin LineBreaks)

\* C4 as claimed: for every text that parses, loads(BOM + text) returns the
\* Document that loads(text) returns.
C4_BOMAnyText ==
    status = "ok" =>
        LET r == Loads(<<BOM>> \o text)
        IN  r.status = "ok" /\ r.root = root

\* C4, amended: for every text that parses and does not itself begin with a
\* byte-order mark, loads(BOM + text) returns the Document that loads(text)
\* returns; loads removes exactly one leading U+FEFF before it splits the text
\* into lines, and no other character.
C4_BOMTolerance ==
    /\ (status = "ok" /\ ~StartsWith(text, <<BOM>>)) =>
            LET r == Loads(<<BOM>> \o text)
            IN  r.status = "ok" /\ r.root = root
    /\ (status \in {"ok", "error"} /\ StartsWith(text, <<BOM>>)) =>
            LET r == Loads(<<BOM>> \o text)
                q == ParseRun(SplitLines(text), ParseStart)
            IN  r.status = q.status /\ r.root = q.root /\ r.error = q.error
    /\ status # "init" =>
            IF StartsWith(text, <<BOM>>)
            THEN <<BOM>> \o Concat(lines) = NonBreaks(text)
            ELSE Concat(lines) = NonBreaks(text)

C4_Witness ==
    /\ status = "ok"
    /\ StartsWith(text, <<BOM>>) /\ ~StartsWith(text, <<BOM, BOM>>)
    /\ root # <<>>
    /\ Loads(Tail(text)).root = root

\* C5: over-indentation is an error.  The expected indent is 0 at the root and
\* two more in each nested section; whenever the parser examines a content
\* line with more leading spaces than the expected indent of the block being
\* parsed, the parse fails with an FCMatParseError whose line is the 1-based
\* number of that line.
C5_OverIndent ==
    /\ [](\A i \in 1..Len(stack) : stack[i].expected_indent = 2 * (i - 1))
    /\ [][ (ContentAhead /\ AheadIndent > Top.expected_indent)
             => /\ status' = "error"
                /\ error'.msg = "Unexpected indentation"
                /\ error'.line = pos + 1 ]_vars

\* an indent of 4 under a depth-1 block
C5_Witness ==
    /\ status = "error" /\ op = "indent_error"
    /\ error.line = 2
    /\ IndentLevel(lines[2]) = 4
    /\ lines[1] = <<"a", ":">>

\* C6: a missing colon is an error with a located line.  Whenever a content
\* line at the expected indent of the current block holds no ":", the parse
\* fails with an FCMatParseError whose line is greater than 0 and is the
\* 1-based position of that line among all the lines of the input.
C6_MissingColon ==
    [][ (ContentAhead /\ AheadIndent = Top.expected_indent
            /\ ~Contains(lines[pos + 1], ":"))
          => /\ status' = "error"
             /\ error'.msg = "Expected 'key: value'"
             /\ error'.line > 0
             /\ error'.line = pos + 1
             /\ lines' = SplitLines(StripBOM(text)) ]_vars

\* the line without a colon comes after a skipped line
C6_Witness ==
    /\ status = "error" /\ op = "colon_error"
    /\ error.line = 2
    /\ SkippableLine(lines[1])

\* C7: an indent below the expected one is no error and does not consume the
\* line.  When a block peeks a content line with fewer leading spaces than its
\* expected indent, it returns: nothing is raised, the cursor and the tree are
\* as before, and the enclosing block is the one that examines the line next.
C7_Dedent ==
    [][ (ContentAhead /\ AheadIndent < Top.expected_indent)
          => /\ status' = "run"
             /\ error' = NoError
             /\ pos' = pos
             /\ root' = root
             /\ lines' = lines
             /\ stack' = SubSeq(stack, 1, Len(stack) - 1)
             /\ stack' # <<>> ]_vars

C7_Witness ==
    /\ op = "dedent"
    /\ status = "run"
    /\ Len(stack) = 1
    /\ pos = 1 /\ Len(lines) = 2

\* the section a parsed text holds under key k with nothing in it
RECURSIVE HasEmptySection(_, _)
HasEmptySection(d, k) ==
    \E i \in 1..Len(d) :
        /\ d[i].kind = "FCMat"
        /\ \/ d[i].key = k /\ d[i].d = <<>>
           \/ HasEmptySection(d[i].d, k)

\* line j of ls is its last content line and is "key:", nothing after the colon
IsLastSectionLine(ls, j) ==
    /\ \A m \in (j + 1)..Len(ls) : SkippableLine(ls[m])
    /\ ~SkippableLine(ls[j])
    /\ Contains(ls[j], ":")
    /\ Strip(SubSeq(ls[j], Index(ls[j], ":") + 1, Len(ls[j]))) = <<>>

\* the key of the line "key:"
SectionKey(l) == Strip(SubSeq(l, 1, Index(l, ":") - 1))

\* C8: the end of the input closes every open block without an error.  When
\* the lines run out with any number of sections open, the parse succeeds and
\* returns the tree built so far; a text whose last content line is "key:"
\* gives an empty section under that key.
C8_EndOfInput ==
    /\ (status = "run" /\ pos >= Len(lines)) =>
            LET r == ParseRun(lines, Cur)
            IN  r.status = "ok" /\ r.root = root
    /\ status = "ok" =>
            \A j \in 1..Len(lines) :
                IsLastSectionLine(lines, j)
                    => HasEmptySection(root, SectionKey(lines[j]))

\* the lines have run out with two nested sections open
C8_Witness ==
    /\ status = "run"
    /\ pos = Len(lines)
    /\ Len(stack) = 3
    /\ IsLastSectionLine(lines, Len(lines))

\* C9: the empty document.  A text of "---" lines, comment lines and blank
\* lines only, the empty text included, parses without error to a Document of
\* no keys.
C9_EmptyDocument ==
    (status \in {"ok", "error"} /\ \A j \in 1..Len(lines) : SkippableLine(lines[j]))
        => (status = "ok" /\ root = <<>>)

C9_Witness ==
    /\ status = "ok"
    /\ root = <<>>
    /\ Len(lines) = 2
    /\ \E j \in 1..2 : Strip(lines[j]) = Marker
    /\ \E j \in 1..2 : Strip(lines[j]) \in { <<>>, <<"#">> }

\* C10: serialized framing.  For every Document and every header_comment,
\* what dumps returns is the line "---", then at most one header comment
\* line, then the body lines, each line ended by a newline: it starts with
\* "---" and a newline, ends with a newline, does not start with a byte-order
\* mark, and is "---" and a newline alone for the empty Document with
\* header_comment "".
C10_Framing ==
    op = "dumps" =>
        LET body   == TextOf(SerializeDict(doc, 0))
            n      == Len(text)
            m      == Len(body)
            header == SubSeq(text, Len(Marker) + 2, n - m)
        IN  /\ StartsWith(text, Marker \o <<NL>>)
            /\ text[n] = NL
            /\ text[1] # BOM
            /\ SubSeq(text, n - m + 1, n) = body
            /\ Len(SplitLines(header)) <= 1
            /\ header # <<>> => (header[1] = "#" /\ header[Len(header)] = NL)
            /\ (doc = <<>> /\ header_comment = EmptyHeader) => text = Marker \o <<NL>>

(* Terms of the claims about dumps *)

\* s holds a line boundary
HasLineBreak(s) == \E i \in 1..Len(s) : s[i] \in LineBreaks

\* what dumps returned, line by line
OutLines == SplitLines(text)

\* what dumps returned after its first line "---"
AfterMarker == SubSeq(text, Len(Marker) + 2, Len(text))

\* the header comment part of C11 for the header_comment strings in scope
HeaderSelected(inScope) ==
    /\ header_comment.isNone =>
            (Len(OutLines) >= 2 /\ OutLines[2] = DefaultHeader)
    /\ (~header_comment.isNone /\ header_comment.s # <<>> /\ inScope) =>
            /\ Len(OutLines) >= 2
            /\ IF header_comment.s[1] = "#"
               THEN OutLines[2] = header_comment.s
               ELSE OutLines[2] = <<"#", SP>> \o header_comment.s
    /\ header_comment = EmptyHeader =>
            AfterMarker = TextOf(SerializeDict(doc, 0))

\* C11 as claimed: header comment selection in dumps, for every header_comment.
\* With None the second output line is "# File written by freecad_material";
\* with a non-empty string that does not start with "#" it is "# " and the
\* string; with a string that starts with "#" it is the string as it is; with
\* the empty string the body begins on the line right after "---".
C11_HeaderAnyString ==
    op = "dumps" => HeaderSelected(TRUE)

\* C11, amended: the same for every header_comment that holds no line break
\* (None, the empty string, and one-line strings with or without a leading
\* "#").
C11_HeaderSelection ==
    op = "dumps" => HeaderSelected(~HasLineBreak(header_comment.s))

\* a header_comment that starts with "#" written in front of a body
C11_Witness ==
    /\ op = "dumps"
    /\ header_comment.s = <<"#", "x">>
    /\ doc # <<>>
    /\ OutLines[2] = <<"#", "x">>
    /\ Len(OutLines) >= 3

\* the keys of d and of its sections in a pre-order walk, each with its depth
RECURSIVE Walk(_, _)
Walk(d, k) ==
    IF d = <<>> THEN <<>>
    ELSE <<[depth |-> k, e |-> Head(d)]>>
         \o (IF Head(d).kind = "str" THEN <<>> ELSE Walk(Head(d).d, k + 1))
         \o Walk(Tail(d), k)

\* the line C12 gives a key of the walk
Rendered(w) ==
    Spaces(2 * w.depth) \o w.e.key \o
        (IF w.e.kind = "str" THEN <<":", SP>> \o Quote(w.e.s) ELSE <<":">>)

\* the lines of what dumps returned after "---" and the header comment line
BodyLines ==
    LET h == IF header_comment = EmptyHeader THEN 1 ELSE 2
    IN  SubSeq(OutLines, h + 1, Len(OutLines))

\* C12: body rendering in dumps.  The body is a pre-order walk of the Document
\* in insertion order with exactly one line per key: a key at depth k has 2*k
\* leading spaces, a section key is the line "<indent><key>:" followed at
\* once by the lines of its children, a leaf key is the line "<indent><key>: "
\* and _quote of its value.
C12_BodyRendering ==
    (op = "dumps" /\ ~HasLineBreak(header_comment.s)) =>
        LET w == Walk(doc, 0)
        IN  /\ Len(BodyLines) = Len(w)
            /\ \A i \in 1..Len(w) : BodyLines[i] = Rendered(w[i])

(* Terms of the claim about unquoted leaves *)

\* t is a double quote, any content, a double quote
QuotedForm(t) == Len(t) >= 2 /\ t[1] = DQ /\ t[Len(t)] = DQ

\* the last line parsed and its trimmed text after the first colon
LastLine == lines[Len(lines)]
AfterColon == Strip(SubSeq(LastLine, Index(LastLine, ":") + 1, Len(LastLine)))

\* the value the Document holds under "k", at the root or in the section "s"
StoredLeaf ==
    IF Len(lines) = 1 THEN root[1] ELSE root[1].d[1]

\* C13: unquoted leaves pass through unchanged.  For a content line whose
\* trimmed text after the first colon is not empty and is not a double quote,
\* any content and a double quote, the parser stores that trimmed text as the
\* leaf value, no quote removed and no escape sequence replaced, and the parse
\* does not fail.
C13_UnquotedLeaf ==
    (op = "loads_text" /\ AfterColon # <<>> /\ ~QuotedForm(AfterColon)) =>
        /\ status = "ok"
        /\ Len(root) = 1
        /\ Len(lines) = 2 => (root[1].kind = "FCMat" /\ Len(root[1].d) = 1)
        /\ StoredLeaf = [key |-> <<"k">>, kind |-> "str", s |-> AfterColon, d |-> <<>>]

\* an unquoted value that holds an escape sequence, inside a section
C13_Witness ==
    /\ op = "loads_text"
    /\ status = "ok"
    /\ Len(lines) = 2
    /\ AfterColon = <<BS, DQ, "a">>
    /\ root[1].d[1].s = <<BS, DQ, "a">>

(* Terms of the claims about the accessors *)

\* the Document holds a leaf string under k
MapsToLeaf(d, k) == \E i \in 1..Len(d) : d[i].key = k /\ d[i].kind = "str"

\* the Document holds a section of its own type, an FCMat, under k
MapsToSection(d, k) == \E i \in 1..Len(d) : d[i].key = k /\ d[i].kind = "FCMat"

\* the Document holds a section of plain dict type under k
MapsToPlainDict(d, k) == \E i \in 1..Len(d) : d[i].key = k /\ d[i].kind = "dict"

\* the entry the Document holds under k
At(d, k) == d[CHOOSE i \in 1..Len(d) : d[i].key = k]

Keys(d) == [i \in 1..Len(d) |-> d[i].key]

\* d after d[k] = v for the string v: k keeps its position when d has it and
\* goes to the end when not, every other key is as before
IsAssigned(d, dNew, k, v) ==
    /\ Keys(dNew) = (IF \E i \in 1..Len(d) : d[i].key = k
                     THEN Keys(d) ELSE Append(Keys(d), k))
    /\ \A i \in 1..Len(d) : d[i].key # k => dNew[i] = d[i]
    /\ At(dNew, k) = [key |-> k, kind |-> "str", s |-> v, d |-> <<>>]

\* C15: set_value(section, key, value).  A section that is absent, or a value
\* under it that is no section, is replaced by a new empty section (at the end
\* of the Document when absent, at the same position when it replaces a leaf)
\* before the key is set; a section already there is kept with all its other
\* keys and their order.  Afterwards doc[section][key] = value, and every
\* other top-level key, its value and the order of the top-level keys are as
\* before.
C15_SetValue ==
    [][ op' = "set_value" =>
          LET sec == args'.section
              had == \E i \in 1..Len(doc) : doc[i].key = sec
              old == IF had /\ At(doc, sec).kind # "str"
                     THEN At(doc, sec)
                     ELSE [key |-> sec, kind |-> "FCMat", s |-> <<>>, d |-> <<>>]
          IN  /\ Keys(doc') = (IF had THEN Keys(doc) ELSE Append(Keys(doc), sec))
              /\ \A i \in 1..Len(doc) : doc[i].key # sec => doc'[i] = doc[i]
              /\ At(doc', sec).kind = old.kind
              /\ At(doc', sec).s = <<>>
              /\ IsAssigned(old.d, At(doc', sec).d, args'.key, args'.value)
              /\ At(At(doc', sec).d, args'.key).s = args'.value ]_vars

\* the key set in a section of two keys that comes first of two
C15_Witness ==
    /\ op = "set_value"
    /\ Len(doc) = 2
    /\ doc[1].key = args.section
    /\ doc[1].kind = "FCMat"
    /\ Len(doc[1].d) = 2
    /\ doc[1].d[1] = StrEntry(args.key, <<"y">>)
    /\ doc[1].d[2].kind = "FCMat"

\* C20: read after write through the accessors.  After set_value(section,
\* key, value) on any Document, whatever it held under section before
\* (nothing, a leaf string, an FCMat section, a section of plain dict type),
\* get_value(section, key) returns value and get_section(section) returns a
\* section that has key.
C20_ReadAfterWrite ==
    [][ (op = "set_value" /\ args'.section = args.section) =>
          /\ (op' = "get_value" /\ args'.key = args.key) => ret' = Str(args.value)
          /\ op' = "get_section" =>
                (ret'.kind # "None" /\ \E i \in 1..Len(ret'.d) : ret'.d[i].key = args.key)
      ]_vars

(* Terms of the claims about the Document a text parses to *)

\* the content lines of the text: those that are not blank, comment or marker
ContentLines == SelectSeq(lines, LAMBDA l : ~SkippableLine(l))

\* the key and the value text of the content line "key: value"
KeyOf(l)  == Strip(SubSeq(l, 1, Index(l, ":") - 1))
RestOf(l) == Strip(SubSeq(l, Index(l, ":") + 1, Len(l)))

\* the numbers of S in increasing order
RECURSIVE Sorted(_)
Sorted(S) ==
    IF S = {} THEN <<>>
    ELSE LET m == CHOOSE x \in S : \A y \in S : x <= y
         IN  <<m>> \o Sorted(S \ {m})

\* The Document of a block by the rule of C16.  ls are the content lines of
\* the block, ind its indent; the lines at ind are the lines of the block
\* itself and the lines after one of them, up to the next, are its children.
\* A key is held once, where it first occurs, with the value of its last line.
RECURSIVE BlockDoc(_, _)
BlockDoc(ls, ind) ==
    LET own      == { j \in 1..Len(ls) : IndentLevel(ls[j]) = ind }
        first    == { j \in own : \A m \in own : m < j => KeyOf(ls[m]) # KeyOf(ls[j]) }
        last(j)  == CHOOSE m \in own :
                        /\ KeyOf(ls[m]) = KeyOf(ls[j])
                        /\ \A n \in own : KeyOf(ls[n]) = KeyOf(ls[j]) => n <= m
        until(m) == IF \E n \in own : n > m
                    THEN (CHOOSE n \in own : n > m /\ \A q \in own : q > m => n <= q) - 1
                    ELSE Len(ls)
        entry(j) == LET m == last(j)
                    IN  IF RestOf(ls[m]) # <<>>
                        THEN [key |-> KeyOf(ls[j]), kind |-> "str",
                              s |-> Unquote(RestOf(ls[m])), d |-> <<>>]
                        ELSE [key |-> KeyOf(ls[j]), kind |-> "FCMat", s |-> <<>>,
                              d |-> BlockDoc(SubSeq(ls, m + 1, until(m)), ind + 2)]
        order    == Sorted(first)
    IN  [i \in 1..Len(order) |-> entry(order[i])]

\* C16: duplicate keys in one block.  When a key is on two or more content
\* lines of the same block, the Document holds it once, with the value of its
\* last line (for a section line "key:" the children after that last line
\* only, the earlier section being dropped and not merged), at the position of
\* its first line among the keys of the block.
C16_DuplicateKeys ==
    status = "ok" => root = BlockDoc(ContentLines, 0)

\* a, b, a: the section a, then the leaf b, then the leaf a
C16_Witness ==
    /\ status = "ok"
    /\ op = "loads_text"
    /\ lines = << <<"a", ":">>, <<"b", ":", SP, "x">>, <<"a", ":", SP, "x">> >>
    /\ root = << StrEntry(<<"a">>, <<"x">>), StrEntry(<<"b">>, <<"x">>) >>

\* what is left to do: two for a line not yet consumed, one for a block not
\* yet returned
Measure == 2 * (Len(lines) - pos) + Len(stack)

\* the ways an iteration of the block loop goes, one action of Next for each
BlockCases ==
    {"eof", "skip", "dedent", "indent_error", "colon_error", "leaf", "section"}

\* C17: parser progress and termination.  For every finite sequence of lines
\* loads ends with a Document or an FCMatParseError: while it runs there is a
\* block whose loop takes one of its branches, and each iteration raises or
\* brings the natural number Measure down.  Every iteration consumes exactly
\* one line, returns or raises; the cursor never goes back and never passes
\* the number of lines; and when the parse succeeds the cursor is at the
\* number of lines, every line consumed once.
C17_Progress ==
    /\ [](status = "run" => (stack # <<>> /\ BlockCase(lines, Cur) \in BlockCases))
    /\ [](pos <= Len(lines))
    /\ [](status = "ok" => (pos = Len(lines) /\ stack = <<>>))
    /\ [][ pos' >= pos ]_vars
    /\ [][ status = "run" =>
             /\ status' = "error" \/ Measure' < Measure
             /\ lines' = lines
             /\ pos' \in {pos, pos + 1}
             /\ \/ pos' = pos + 1
                \/ Len(stack') = Len(stack) - 1
                \/ status' = "error" ]_vars

\* two lines consumed by two blocks, the section and the root
C17_Witness ==
    /\ status = "ok"
    /\ pos = 2 /\ Len(lines) = 2
    /\ Len(root) = 1 /\ root[1].kind = "FCMat" /\ Len(root[1].d) = 1
    /\ op = "eof"

\* the nearest content line before the j-th with two leading spaces less
HasParent(ls, j) ==
    \E m \in 1..(j - 1) : IndentLevel(ls[m]) + 2 = IndentLevel(ls[j])

Parent(ls, j) ==
    CHOOSE m \in 1..(j - 1) :
        /\ IndentLevel(ls[m]) + 2 = IndentLevel(ls[j])
        /\ \A q \in (m + 1)..(j - 1) : IndentLevel(ls[q]) + 2 # IndentLevel(ls[j])

\* the keys of the sections around the j-th content line, outermost first
RECURSIVE PathOf(_, _)
PathOf(ls, j) ==
    IF ~HasParent(ls, j) THEN <<>>
    ELSE PathOf(ls, Parent(ls, j)) \o <<KeyOf(ls[Parent(ls, j)])>>

\* the Document after the first n content lines, each key stored in the
\* section its line is in
RECURSIVE StoredUpTo(_, _)
StoredUpTo(ls, n) ==
    IF n = 0 THEN <<>>
    ELSE SetItemAt(StoredUpTo(ls, n - 1), PathOf(ls, n),
                   IF RestOf(ls[n]) # <<>>
                   THEN StrEntry(KeyOf(ls[n]), Unquote(RestOf(ls[n])))
                   ELSE FCMatEntry(KeyOf(ls[n]), <<>>))

C19_FixedPoint ==
    (op = "loads" /\ ~HasLineBreak(header_comment.s)) =>
        (status = "ok" /\ root = doc)

\* a Document of a section, a quoted leaf and an unquoted one, written with
\* the header comment "x" and read back
C19_Witness ==
    /\ op = "loads"
    /\ header_comment.s = <<"x">>
    /\ status = "ok"
    /\ root = doc
    /\ doc = << FCMatEntry(<<"a">>, << StrEntry(<<"a">>, <<DQ>>) >>),
                StrEntry(<<"b">>, <<"x">>) >>
    /\ Len(lines) = 5

====
